---- MODULE Spec2Model ----
(***************************************************************************)
(* A model of glib's Variant binding (src/glib/src/variant.rs): the        *)
(* conversion traits StaticVariantType / ToVariant / FromVariant, the      *)
(* container accessors, and the serialised form (data, size, store,        *)
(* from_data_with_type).                                                   *)
(*                                                                         *)
(* Representation.                                                         *)
(*  - A type signature is a sequence of one-character strings:             *)
(*    "a{su}" is <<"a","{","s","u","}">>.                                  *)
(*  - A native Rust type is a descriptor [t |-> name, a |-> <<arguments>>].*)
(*  - A native value and a Variant are both records [ty, b, c, tr]:        *)
(*      ty  the Variant's signature (<<>> for a native value),             *)
(*      b   payload bytes: a scalar in little-endian order (the order of   *)
(*          the machine the values are built on), or the bytes of a string,*)
(*      c   the children (elements, fields, key and value, boxed value),   *)
(*      tr  whether the instance is trusted to be in normal form.          *)
(*    Integers are kept as their bytes, so that all widths up to 64 bits   *)
(*    are exact.                                                           *)
(*  - A native map is held as its entries in ascending key order; a        *)
(*    HashMap is iterated in an arbitrary order chosen by `seed`.          *)
(*  - Map keys are basic types: a signature with a container key is not a  *)
(*    type string, and no Variant of such a type exists.                   *)
(***************************************************************************)
EXTENDS Integers, Sequences, FiniteSets, TLC

\* ------------------------------------------------------------ bounds
MaxLen == 2      \* longest native Vec / largest native map
MaxSeed == 1     \* HashMap iteration orders 0..MaxSeed
MaxSlack == 1    \* store() buffers are size-MaxSlack .. size+MaxSlack long

\* ------------------------------------------------------------ helpers
RECURSIVE Concat(_)
Concat(ss) == IF ss = <<>> THEN <<>> ELSE Head(ss) \o Concat(Tail(ss))

RECURSIVE Reverse(_)
Reverse(s) == IF s = <<>> THEN <<>> ELSE Reverse(Tail(s)) \o <<Head(s)>>

Repeat(v, n) == [i \in 1..n |-> v]

RemoveAt(s, i) == SubSeq(s, 1, i - 1) \o SubSeq(s, i + 1, Len(s))

\* The n-th permutation of s (n \div Len(s)! selects nothing further).
RECURSIVE NthPerm(_, _)
NthPerm(s, n) ==
    IF s = <<>> THEN <<>>
    ELSE LET i == (n % Len(s)) + 1
         IN  <<s[i]>> \o NthPerm(RemoveAt(s, i), n \div Len(s))

RECURSIVE LexLess(_, _)
LexLess(a, b) ==
    IF a = <<>> THEN b # <<>>
    ELSE IF b = <<>> THEN FALSE
    ELSE IF a[1] # b[1] THEN a[1] < b[1]
    ELSE LexLess(Tail(a), Tail(b))

\* ------------------------------------------------------------ native types
Ty(t, a) == [a |-> a, t |-> t]
TU8 == Ty("u8", <<>>)
TI16 == Ty("i16", <<>>)
TU16 == Ty("u16", <<>>)
TI32 == Ty("i32", <<>>)
TU32 == Ty("u32", <<>>)
TI64 == Ty("i64", <<>>)
TU64 == Ty("u64", <<>>)
TF64 == Ty("f64", <<>>)
TBool == Ty("bool", <<>>)
TUnit == Ty("unit", <<>>)
TString == Ty("String", <<>>)
TVariant == Ty("Variant", <<>>)
TOption(T) == Ty("Option", <<T>>)
TVec(T) == Ty("Vec", <<T>>)
THashMap(K, V) == Ty("HashMap", <<K, V>>)
TBTreeMap(K, V) == Ty("BTreeMap", <<K, V>>)
TDictEntry(K, V) == Ty("DictEntry", <<K, V>>)
TTuple(Ts) == Ty("Tuple", Ts)

NumericNames == {"u8", "i16", "u16", "i32", "u32", "i64", "u64", "f64"}
SignedNames == {"i16", "i32", "i64"}

\* impl_numeric!: the signature code and (mem::size_of) width of each type.
NumericCode(t) ==
    CASE t = "u8" -> "y" [] t = "i16" -> "n" [] t = "u16" -> "q"
      [] t = "i32" -> "i" [] t = "u32" -> "u" [] t = "i64" -> "x"
      [] t = "u64" -> "t" [] t = "f64" -> "d"

NumericWidth(t) ==
    CASE t = "u8" -> 1 [] t \in {"i16", "u16"} -> 2
      [] t \in {"i32", "u32"} -> 4 [] OTHER -> 8

\* ------------------------------------------------------------ signatures
VARDICT == <<"a", "{", "s", "v", "}">>

as_array(sig) == <<"a">> \o sig

\* A mapping that builds the element type as a tuple.
static_variant_mapping_tuple(key_type, value_type) ==
    <<"a", "(">> \o key_type \o value_type \o <<")">>

static_variant_mapping(key_type, value_type) ==
    IF key_type = <<"s">> /\ value_type = <<"v">>
    THEN VARDICT
    ELSE <<"a", "{">> \o key_type \o value_type \o <<"}">>

RECURSIVE static_variant_type(_)
static_variant_type(T) ==
    CASE T.t \in NumericNames -> <<NumericCode(T.t)>>
      [] T.t = "unit" -> <<"(", ")">>
      [] T.t = "bool" -> <<"b">>
      [] T.t = "String" -> <<"s">>
      [] T.t = "Variant" -> <<"v">>
      [] T.t = "Option" -> <<"m">> \o static_variant_type(T.a[1])
      [] T.t = "Vec" -> as_array(static_variant_type(T.a[1]))
      [] T.t = "DictEntry" ->
            <<"{">> \o static_variant_type(T.a[1])
                    \o static_variant_type(T.a[2]) \o <<"}">>
      [] T.t \in {"HashMap", "BTreeMap"} ->
            static_variant_mapping(static_variant_type(T.a[1]),
                                   static_variant_type(T.a[2]))
      [] T.t = "Tuple" ->
            <<"(">> \o Concat([i \in 1..Len(T.a) |-> static_variant_type(T.a[i])])
                    \o <<")">>

\* VariantTy::is_subtype_of against the indefinite types TUPLE ("r") and
\* DICT_ENTRY ("{?*}"): decided by the leading character.
is_subtype_of_TUPLE(sig) == Head(sig) = "("
is_subtype_of_DICT_ENTRY(sig) == Head(sig) = "{"

\* ------------------------------------------------------------ values
Val(ty, b, c) == [b |-> b, ty |-> ty, c |-> c, tr |-> TRUE]
Native(b, c) == Val(<<>>, b, c)

type_(x) == x.ty

is(x, T) == type_(x) = static_variant_type(T)

is_container(x) == Head(type_(x)) \in {"a", "m", "(", "{", "v"}

\* ------------------------------------------------------------ outcomes
\* What a Rust call yields: Some/None, Ok/Err, a plain value, or a panic.
Out(tag, val) == [tag |-> tag, val |-> val]
Nothing == Native(<<>>, <<>>)
Some(v) == Out("Some", v)
None == Out("None", Nothing)
Panic == Out("Panic", Nothing)
Ok(v) == Out("Ok", v)
OkSome(v) == Out("OkSome", v)
OkNone == Out("OkNone", Nothing)

VariantTypeMismatchError_new(actual, expected) ==
    [actual |-> actual, expected |-> expected]
Err(e) == Out("Err", e)

\* ------------------------------------------------------------ constructors
\* The g_variant_new_* calls the ToVariant impls make.
\* An array constructor that always makes a byte array.
g_variant_new_array_bytes(child_type, children) ==
    Val(<<"a", "y">>, <<>>, children)

g_variant_new_array(child_type, children) ==
    Val(as_array(child_type), <<>>, children)

\* A builder that hands back the children last to first.
builder_end_ARRAY_reversed(children) ==
    Val(as_array(children[1].ty), <<>>, Reverse(children))

\* A builder opened on the indefinite ARRAY type takes its element type from
\* the first value added.
builder_end_ARRAY(children) ==
    Val(as_array(children[1].ty), <<>>, children)

tuple_from_iter(children) ==
    Val(<<"(">> \o Concat([i \in 1..Len(children) |-> children[i].ty]) \o <<")">>,
        <<>>, children)

g_variant_new_dict_entry(key, value) ==
    Val(<<"{">> \o key.ty \o value.ty \o <<"}">>, <<>>, <<key, value>>)

Variant_from_variant(value) == Val(<<"v">>, <<>>, <<value>>)

\* The value a panicking constructor never returns.
NoVariant == Val(<<"!">>, <<>>, <<>>)

\* array_from_iter that adds every child without looking at its type.
array_from_iter_unchecked(T, children) ==
    Val(as_array(static_variant_type(T)), <<>>, children)

\* The builder is opened on the definite type array-of(T); a child of another
\* type clears it and fails the assertion.
array_from_iter(T, children) ==
    IF \E i \in 1..Len(children) : ~is(children[i], T)
    THEN NoVariant
    ELSE Val(as_array(static_variant_type(T)), <<>>, children)

\* from_maybe without its assertion on the child's type.
from_maybe_unchecked(T, child) ==
    Val(<<"m">> \o static_variant_type(T), <<>>, child)

\* child is <<>> (None) or <<c>> (Some(&c)).
from_maybe(T, child) ==
    IF child # <<>> /\ static_variant_type(T) # type_(child[1])
    THEN NoVariant
    ELSE Val(<<"m">> \o static_variant_type(T), <<>>, child)

\* ------------------------------------------------------------ ToVariant
\* Iteration order of a native map: ascending keys for a BTreeMap, any order
\* (picked by seed) for a HashMap.
MapIter(T, v, seed) ==
    IF T.t = "HashMap" THEN NthPerm(v.c, seed) ELSE v.c

RECURSIVE to_variant(_, _, _)
to_variant(T, v, seed) ==
    CASE T.t \in NumericNames -> Val(<<NumericCode(T.t)>>, v.b, <<>>)
      [] T.t = "bool" -> Val(<<"b">>, v.b, <<>>)
      [] T.t = "unit" -> Val(<<"(", ")">>, <<>>, <<>>)
      [] T.t = "String" -> Val(<<"s">>, v.b, <<>>)
      [] T.t = "Variant" -> Variant_from_variant(v)
      [] T.t = "Option" ->
            from_maybe(T.a[1],
                [i \in 1..Len(v.c) |-> to_variant(T.a[1], v.c[i], seed)])
      [] T.t = "Vec" ->
            IF v.c = <<>>
            THEN g_variant_new_array(static_variant_type(T.a[1]), <<>>)
            ELSE builder_end_ARRAY(
                    [i \in 1..Len(v.c) |-> to_variant(T.a[1], v.c[i], seed)])
      [] T.t \in {"HashMap", "BTreeMap"} ->
            IF v.c = <<>>
            THEN g_variant_new_array(
                    static_variant_type(TDictEntry(T.a[1], T.a[2])), <<>>)
            ELSE LET it == MapIter(T, v, seed)
                 IN  builder_end_ARRAY(
                        [i \in 1..Len(it) |->
                            to_variant(TDictEntry(T.a[1], T.a[2]), it[i], seed)])
      [] T.t = "DictEntry" ->
            g_variant_new_dict_entry(to_variant(T.a[1], v.c[1], seed),
                                     to_variant(T.a[2], v.c[2], seed))
      [] T.t = "Tuple" ->
            tuple_from_iter(
                [i \in 1..Len(T.a) |-> to_variant(T.a[i], v.c[i], seed)])

\* impl FromIterator<T> for Variant: collect() of native values.
from_iter(T, natives, seed) ==
    array_from_iter(T, [i \in 1..Len(natives) |-> to_variant(T, natives[i], seed)])

\* ------------------------------------------------------------ accessors
\* n_children without its assertion.
n_children_unchecked(x) == Out("Usize", Len(x.c))

n_children(x) ==
    IF ~is_container(x) THEN Panic ELSE Out("Usize", Len(x.c))

child_value(x, index) ==
    IF ~is_container(x) THEN Panic
    ELSE IF ~(index < Len(x.c)) THEN Panic
    ELSE Out("Variant", x.c[index + 1])

\* try_child_value with the bound off by one.
try_child_value_short(x, index) ==
    IF ~(is_container(x) /\ index + 1 < Len(x.c))
    THEN None
    ELSE Some(x.c[index + 1])

try_child_value(x, index) ==
    IF ~(is_container(x) /\ index < Len(x.c))
    THEN None
    ELSE Some(x.c[index + 1])

\* str that knows the plain string type only.
str_s_only(x) ==
    IF type_(x) = <<"s">> THEN Some(Native(x.b, <<>>)) ELSE None

str(x) ==
    IF type_(x) \in {<<"s">>, <<"o">>, <<"g">>} THEN Some(Native(x.b, <<>>)) ELSE None

\* as_variant that hands out the first child of any Variant that has one.
as_variant_first(x) == IF x.c # <<>> THEN Some(x.c[1]) ELSE None

as_variant(x) ==
    IF type_(x) = <<"v">> THEN Some(x.c[1]) ELSE None

\* ------------------------------------------------------------ FromVariant
\* Ord on the native key types (little-endian integers, strings, bool).
NatLess(K, a, b) ==
    CASE K.t \in SignedNames ->
            LET flip(s) == [i \in 1..Len(s) |->
                               IF i = 1 THEN (s[i] + 128) % 256 ELSE s[i]]
            IN  LexLess(flip(Reverse(a.b)), flip(Reverse(b.b)))
      [] K.t \in NumericNames \ SignedNames ->
            LexLess(Reverse(a.b), Reverse(b.b))
      [] OTHER -> LexLess(a.b, b.b)

\* A map that keeps its entries in the order they were inserted.
RECURSIVE MapInsert_unsorted(_, _, _, _)
MapInsert_unsorted(K, m, k, v) ==
    IF m = <<>> THEN <<Native(<<>>, <<k, v>>)>>
    ELSE IF Head(m).c[1] = k THEN <<Native(<<>>, <<k, v>>)>> \o Tail(m)
    ELSE <<Head(m)>> \o MapInsert_unsorted(K, Tail(m), k, v)

RECURSIVE MapInsert(_, _, _, _)
MapInsert(K, m, k, v) ==
    IF m = <<>> THEN <<Native(<<>>, <<k, v>>)>>
    ELSE IF Head(m).c[1] = k THEN <<Native(<<>>, <<k, v>>)>> \o Tail(m)
    ELSE IF NatLess(K, k, Head(m).c[1]) THEN <<Native(<<>>, <<k, v>>)>> \o m
    ELSE <<Head(m)>> \o MapInsert(K, Tail(m), k, v)

\* m.insert(k, v) for each of the entries in turn.
RECURSIVE InsertAll(_, _, _)
InsertAll(K, m, entries) ==
    IF entries = <<>> THEN m
    ELSE InsertAll(K, MapInsert(K, m, Head(entries).c[1], Head(entries).c[2]),
                   Tail(entries))

from_variant_numeric(T, x) ==
    IF is(x, T) THEN Some(Native(x.b, <<>>)) ELSE None

from_variant_unit(T, x) ==
    IF is(x, T) THEN Some(Nothing) ELSE None

from_variant_String(x) == str(x)

from_variant_Variant(x) == as_variant(x)

RECURSIVE from_variant(_, _), VecLoop(_, _, _, _), MapLoop(_, _, _, _),
          TupleLoop(_, _, _, _), from_variant_DictEntry(_, _), try_get(_, _),
          try_child_get(_, _, _)

get(x, T) == from_variant(T, x)

try_get(x, T) ==
    LET g == get(x, T)
    IN  CASE g.tag = "Some" -> Ok(g.val)
          [] g.tag = "Panic" -> Panic
          [] OTHER -> Err(VariantTypeMismatchError_new(
                              type_(x), static_variant_type(T)))

try_child_get(x, T, index) ==
    LET c == try_child_value(x, index)
    IN  IF c.tag = "None" THEN OkNone
        ELSE LET r == try_get(c.val, T)
             IN  IF r.tag = "Ok" THEN OkSome(r.val) ELSE r

child_get(x, T, index) ==
    LET c == child_value(x, index)
    IN  IF c.tag = "Panic" THEN Panic
        ELSE LET g == get(c.val, T)
             IN  IF g.tag = "Some" THEN Out("Value", g.val) ELSE Panic

\* Option's from_variant without the recursive decode of the child.
from_variant_Option_nochild(T, x) ==
    IF is(x, T) THEN Some(Nothing) ELSE None

from_variant_Option(T, x) ==
    IF is(x, T)
    THEN IF x.c # <<>>
         THEN LET r == from_variant(T.a[1], x.c[1])
              IN  CASE r.tag = "Panic" -> Panic
                    [] r.tag = "Some" -> Some(Native(<<>>, <<r.val>>))
                    [] OTHER -> Some(Nothing)
         ELSE Some(Nothing)
    ELSE None

\* The loop of impl FromVariant for Vec<T>; i counts from 0.
VecLoop(T, x, i, vec) ==
    IF ~(i < Len(x.c)) THEN Some(Native(<<>>, vec))
    ELSE LET r == get(child_value(x, i).val, T)
         IN  IF r.tag = "Some" THEN VecLoop(T, x, i + 1, Append(vec, r.val))
             ELSE r

from_variant_Vec(T, x) ==
    IF ~is_container(x) THEN None ELSE VecLoop(T.a[1], x, 0, <<>>)

\* The loop of impl FromVariant for HashMap / BTreeMap.
MapLoop(T, x, i, map) ==
    IF ~(i < Len(x.c)) THEN Some(Native(<<>>, map))
    ELSE LET entry == child_value(x, i).val
             kc == child_value(entry, 0)
         IN  IF kc.tag = "Panic" THEN Panic
             ELSE LET key == get(kc.val, T.a[1])
                  IN  IF key.tag # "Some" THEN key
                      ELSE LET vc == child_value(entry, 1)
                           IN  IF vc.tag = "Panic" THEN Panic
                               ELSE LET val == get(vc.val, T.a[2])
                                    IN  IF val.tag # "Some" THEN val
                                        ELSE MapLoop(T, x, i + 1,
                                                MapInsert(T.a[1], map,
                                                          key.val, val.val))

\* The maps' from_variant refusing an array without entries.
from_variant_Map_nonempty(T, x) ==
    IF ~is_container(x) \/ x.c = <<>> THEN None ELSE MapLoop(T, x, 0, <<>>)

from_variant_Map(T, x) ==
    IF ~is_container(x) THEN None ELSE MapLoop(T, x, 0, <<>>)

from_variant_DictEntry(T, x) ==
    IF ~is_subtype_of_DICT_ENTRY(type_(x)) THEN None
    ELSE LET kc == child_value(x, 0)
         IN  IF kc.tag = "Panic" THEN Panic
             ELSE LET key == get(kc.val, T.a[1])
                  IN  IF key.tag # "Some" THEN key
                      ELSE LET vc == child_value(x, 1)
                           IN  IF vc.tag = "Panic" THEN Panic
                               ELSE LET value == get(vc.val, T.a[2])
                                    IN  IF value.tag # "Some" THEN value
                                        ELSE Some(Native(<<>>, <<key.val, value.val>>))

\* The fields of tuple_impls! FromVariant, n counting from 0.
TupleLoop(T, x, n, fields) ==
    IF ~(n < Len(T.a)) THEN Some(Native(<<>>, fields))
    ELSE LET r == try_child_get(x, T.a[n + 1], n)
         IN  CASE r.tag = "OkSome" -> TupleLoop(T, x, n + 1, Append(fields, r.val))
               [] r.tag = "Panic" -> Panic
               [] OTHER -> None

\* The tuple's from_variant with the kind test of DictEntry.
from_variant_Tuple_wrongkind(T, x) ==
    IF ~is_subtype_of_DICT_ENTRY(type_(x)) THEN None ELSE TupleLoop(T, x, 0, <<>>)

from_variant_Tuple(T, x) ==
    IF ~is_subtype_of_TUPLE(type_(x)) THEN None ELSE TupleLoop(T, x, 0, <<>>)

from_variant(T, x) ==
    CASE T.t \in NumericNames \cup {"bool"} -> from_variant_numeric(T, x)
      [] T.t = "unit" -> from_variant_unit(T, x)
      [] T.t = "String" -> from_variant_String(x)
      [] T.t = "Variant" -> from_variant_Variant(x)
      [] T.t = "Option" -> from_variant_Option(T, x)
      [] T.t = "Vec" -> from_variant_Vec(T, x)
      [] T.t \in {"HashMap", "BTreeMap"} -> from_variant_Map(T, x)
      [] T.t = "DictEntry" -> from_variant_DictEntry(T, x)
      [] T.t = "Tuple" -> from_variant_Tuple(T, x)

\* ------------------------------------------------------------ type strings
\* Walking a signature: TypeEnd(s, i) is the index after the complete type
\* that starts at s[i]; Members splits a tuple or dict-entry signature.
RECURSIVE TypeEnd(_, _), ItemsEnd(_, _)
TypeEnd(s, i) ==
    CASE s[i] \in {"a", "m"} -> TypeEnd(s, i + 1)
      [] s[i] \in {"(", "{"} -> ItemsEnd(s, i + 1)
      [] OTHER -> i + 1
ItemsEnd(s, i) ==
    IF s[i] \in {")", "}"} THEN i + 1 ELSE ItemsEnd(s, TypeEnd(s, i))

RECURSIVE MembersFrom(_, _)
MembersFrom(s, i) ==
    IF s[i] \in {")", "}"} THEN <<>>
    ELSE LET e == TypeEnd(s, i)
         IN  <<SubSeq(s, i, e - 1)>> \o MembersFrom(s, e)
Members(sig) == MembersFrom(sig, 2)

AlignUp(n, a) == ((n + a - 1) \div a) * a
Max2(a, b) == IF a > b THEN a ELSE b

RECURSIVE Alignment(_), MaxAlignment(_)
Alignment(sig) ==
    CASE Head(sig) \in {"n", "q"} -> 2
      [] Head(sig) \in {"i", "u"} -> 4
      [] Head(sig) \in {"x", "t", "d", "v"} -> 8
      [] Head(sig) \in {"a", "m"} -> Alignment(Tail(sig))
      [] Head(sig) \in {"(", "{"} -> MaxAlignment(Members(sig))
      [] OTHER -> 1
MaxAlignment(sigs) ==
    IF sigs = <<>> THEN 1
    ELSE Max2(Alignment(Head(sigs)), MaxAlignment(Tail(sigs)))

\* The fixed serialised size of a type, 0 when its size varies.
RECURSIVE FixedSize(_), FixedMembers(_, _)
FixedSize(sig) ==
    CASE Head(sig) \in {"y", "b"} -> 1
      [] Head(sig) \in {"n", "q"} -> 2
      [] Head(sig) \in {"i", "u"} -> 4
      [] Head(sig) \in {"x", "t", "d"} -> 8
      [] Head(sig) \in {"(", "{"} ->
            IF Members(sig) = <<>> THEN 1
            ELSE LET n == FixedMembers(Members(sig), 0)
                 IN  IF n = 0 THEN 0 ELSE AlignUp(n, Alignment(sig))
      [] OTHER -> 0
\* The end of the last member when all are fixed-size, else 0.
FixedMembers(sigs, off) ==
    IF sigs = <<>> THEN off
    ELSE IF FixedSize(Head(sigs)) = 0 THEN 0
    ELSE FixedMembers(Tail(sigs),
            AlignUp(off, Alignment(Head(sigs))) + FixedSize(Head(sigs)))

\* ASCII of the characters of type strings.
CharCode(ch) ==
    CASE ch = "(" -> 40 [] ch = ")" -> 41 [] ch = "{" -> 123 [] ch = "}" -> 125
      [] ch = "a" -> 97 [] ch = "b" -> 98 [] ch = "d" -> 100 [] ch = "g" -> 103
      [] ch = "i" -> 105 [] ch = "m" -> 109 [] ch = "n" -> 110 [] ch = "o" -> 111
      [] ch = "q" -> 113 [] ch = "s" -> 115 [] ch = "t" -> 116 [] ch = "u" -> 117
      [] ch = "v" -> 118 [] ch = "x" -> 120 [] ch = "y" -> 121
TypeChars == {"(", ")", "{", "}", "a", "b", "d", "g", "i", "m", "n", "o", "q",
              "s", "t", "u", "v", "x", "y"}
CodeChar(n) ==
    IF \E ch \in TypeChars : CharCode(ch) = n
    THEN CHOOSE ch \in TypeChars : CharCode(ch) = n
    ELSE "?"

\* Validation of what untrusted data claims to be. ValidTypeEnd is the index
\* after the complete type that starts at s[i], or 0 if there is none.
BasicChars == {"b", "y", "n", "q", "i", "u", "x", "t", "d", "s", "o", "g"}

RECURSIVE ValidTypeEnd(_, _), ValidItemsEnd(_, _)
ValidTypeEnd(s, i) ==
    IF i > Len(s) THEN 0
    ELSE CASE s[i] \in BasicChars \cup {"v"} -> i + 1
           [] s[i] \in {"a", "m"} -> ValidTypeEnd(s, i + 1)
           [] s[i] = "(" -> ValidItemsEnd(s, i + 1)
           [] s[i] = "{" ->
                IF i + 1 <= Len(s) /\ s[i + 1] \in BasicChars
                THEN LET e == ValidTypeEnd(s, i + 2)
                     IN  IF e # 0 /\ e <= Len(s) /\ s[e] = "}" THEN e + 1 ELSE 0
                ELSE 0
           [] OTHER -> 0
ValidItemsEnd(s, i) ==
    IF i > Len(s) THEN 0
    ELSE IF s[i] = ")" THEN i + 1
    ELSE LET e == ValidTypeEnd(s, i)
         IN  IF e = 0 THEN 0 ELSE ValidItemsEnd(s, e)

\* g_variant_type_string_is_valid
IsTypeString(s) == ValidTypeEnd(s, 1) = Len(s) + 1

\* g_variant_is_signature: zero or more complete types.
RECURSIVE TypesFrom(_, _)
TypesFrom(s, i) ==
    IF i = Len(s) + 1 THEN TRUE
    ELSE LET e == ValidTypeEnd(s, i) IN e # 0 /\ TypesFrom(s, e)
IsSignature(bytes) == TypesFrom([i \in 1..Len(bytes) |-> CodeChar(bytes[i])], 1)

\* g_variant_is_object_path: "/" or "/"-separated non-empty elements of
\* [A-Za-z0-9_].
IsObjectPath(bytes) ==
    /\ bytes # <<>> /\ bytes[1] = 47
    /\ \A i \in 1..Len(bytes) :
          \/ bytes[i] = 47 /\ (i = 1 \/ bytes[i - 1] # 47)
                /\ (i < Len(bytes) \/ i = 1)
          \/ bytes[i] \in (48..57) \cup (65..90) \cup (97..122) \cup {95}

\* A string's text is valid when it has no NUL and is UTF-8 (the bytes of
\* the model are ASCII or, in untouched buffer space, 170 = no UTF-8).
IsText(sig, bytes) ==
    /\ \A i \in 1..Len(bytes) : bytes[i] # 0 /\ bytes[i] < 128
    /\ Head(sig) = "o" => IsObjectPath(bytes)
    /\ Head(sig) = "g" => IsSignature(bytes)

\* ------------------------------------------------------------ serialising
\* The GVariant serialised form. Framing offsets are as wide as the size of
\* the container needs (1 byte up to 255 bytes, else 2).
OffsetSize(total) == IF total <= 255 THEN 1 ELSE 2
OffsetBytes(n, w) ==
    IF w = 1 THEN <<n % 256>> ELSE <<n % 256, (n \div 256) % 256>>
\* The width w such that a body of `body` bytes and n offsets of w bytes fit.
OffsetSizeFor(body, n) == IF body + n <= 255 THEN 1 ELSE 2

RECURSIVE Serialise(_), SerialiseMembers(_, _, _, _)
\* Lays out children i.. of x after `body`; ends collects each child's end.
SerialiseMembers(cs, i, body, ends) ==
    IF i > Len(cs) THEN [body |-> body, ends |-> ends]
    ELSE LET start == AlignUp(Len(body), Alignment(cs[i].ty))
             b2 == body \o Repeat(0, start - Len(body)) \o Serialise(cs[i])
         IN  SerialiseMembers(cs, i + 1, b2, Append(ends, Len(b2)))

Serialise(x) ==
    CASE Head(x.ty) \in {"s", "o", "g"} -> x.b \o <<0>>
      [] Head(x.ty) = "v" ->
            Serialise(x.c[1]) \o <<0>>
                \o [i \in 1..Len(x.c[1].ty) |-> CharCode(x.c[1].ty[i])]
      [] Head(x.ty) = "m" ->
            IF x.c = <<>> THEN <<>>
            ELSE IF FixedSize(Tail(x.ty)) # 0 THEN Serialise(x.c[1])
            ELSE Serialise(x.c[1]) \o <<0>>
      [] Head(x.ty) = "a" ->
            LET m == SerialiseMembers(x.c, 1, <<>>, <<>>)
            IN  IF FixedSize(Tail(x.ty)) # 0 \/ x.c = <<>> THEN m.body
                ELSE LET w == OffsetSizeFor(Len(m.body), Len(x.c))
                     IN  m.body \o Concat([i \in 1..Len(x.c) |->
                                              OffsetBytes(m.ends[i], w)])
      [] Head(x.ty) \in {"(", "{"} ->
            LET m == SerialiseMembers(x.c, 1, <<>>, <<>>)
                \* every variable-size member but the last has a framing offset
                framed == [i \in 1..Len(x.c) |->
                              i < Len(x.c) /\ FixedSize(x.c[i].ty) = 0]
                idx == {i \in 1..Len(x.c) : framed[i]}
                w == OffsetSizeFor(Len(m.body), Cardinality(idx))
                \* offsets are stored last to first
                offs == Concat([k \in 1..Len(x.c) |->
                            LET i == Len(x.c) + 1 - k
                            IN  IF framed[i] THEN OffsetBytes(m.ends[i], w)
                                ELSE <<>>])
            IN  IF x.c = <<>> THEN <<0>>
                ELSE IF FixedSize(x.ty) # 0
                THEN m.body \o Repeat(0, FixedSize(x.ty) - Len(m.body))
                ELSE m.body \o offs
      [] OTHER -> x.b

\* ------------------------------------------------------------ deserialising
\* Reading a serialised-mode instance: the children a signature and its bytes
\* describe. Bytes that do not fit the signature read as the type's default
\* value. The instance is not trusted to be in normal form.
Untrusted(ty, b, c) == [b |-> b, ty |-> ty, c |-> c, tr |-> FALSE]

ReadOffset(bytes, pos, w) ==
    IF w = 1 THEN bytes[pos] ELSE bytes[pos] + 256 * bytes[pos + 1]

LastIndexOf(bytes, v) ==
    LET hits == {i \in 1..Len(bytes) : bytes[i] = v}
    IN  IF hits = {} THEN 0 ELSE CHOOSE i \in hits : \A j \in hits : j <= i

RECURSIVE Default(_)
Default(sig) ==
    CASE Head(sig) \in {"y", "b", "n", "q", "i", "u", "x", "t", "d"} ->
            Untrusted(sig, Repeat(0, FixedSize(sig)), <<>>)
      [] Head(sig) = "v" ->
            Untrusted(sig, <<>>, <<Untrusted(<<"(", ")">>, <<>>, <<>>)>>)
      [] Head(sig) \in {"(", "{"} ->
            Untrusted(sig, <<>>,
                [i \in 1..Len(Members(sig)) |-> Default(Members(sig)[i])])
      [] Head(sig) = "o" -> Untrusted(sig, <<47>>, <<>>)
      [] OTHER -> Untrusted(sig, <<>>, <<>>)

RECURSIVE Deserialise(_, _), ReadFixedArray(_, _, _), ReadArray(_, _, _, _, _, _),
          ReadMembers(_, _, _, _, _, _)

\* Elements of fixed size sz, back to back.
ReadFixedArray(esig, bytes, sz) ==
    IF Len(bytes) < sz THEN <<>>
    ELSE <<Deserialise(esig, SubSeq(bytes, 1, sz))>>
            \o ReadFixedArray(esig, SubSeq(bytes, sz + 1, Len(bytes)), sz)

\* Element i (from 1) of n variable-size elements; table is where the framing
\* offsets start (0-based), prev the end of the element before.
ReadArray(esig, bytes, i, n, table, prev) ==
    IF i > n THEN <<>>
    ELSE LET w == OffsetSize(Len(bytes))
             end == ReadOffset(bytes, table + (i - 1) * w + 1, w)
             start == AlignUp(prev, Alignment(esig))
         IN  <<IF start <= end /\ end <= table
               THEN Deserialise(esig, SubSeq(bytes, start + 1, end))
               ELSE Default(esig)>>
                \o ReadArray(esig, bytes, i + 1, n, table, end)

\* Member i (from 1) of a tuple or dict entry; used counts the framing
\* offsets read so far from the end, prev is the end of the member before.
ReadMembers(sigs, bytes, i, used, prev, ok) ==
    IF i > Len(sigs) THEN <<>>
    ELSE LET w == OffsetSize(Len(bytes))
             start == AlignUp(prev, Alignment(sigs[i]))
             fixed == FixedSize(sigs[i])
             framed == fixed = 0 /\ i < Len(sigs)
             end == IF fixed # 0 THEN start + fixed
                    ELSE IF framed
                    THEN IF Len(bytes) >= (used + 1) * w
                         THEN ReadOffset(bytes, Len(bytes) - (used + 1) * w + 1, w)
                         ELSE Len(bytes) + 1
                    ELSE Len(bytes) - used * w
             good == ok /\ start <= end /\ end <= Len(bytes)
         IN  <<IF good THEN Deserialise(sigs[i], SubSeq(bytes, start + 1, end))
               ELSE Default(sigs[i])>>
                \o ReadMembers(sigs, bytes, i + 1,
                               IF framed THEN used + 1 ELSE used,
                               IF good THEN end ELSE prev, good)

Deserialise(sig, bytes) ==
    CASE Head(sig) \in {"y", "b", "n", "q", "i", "u", "x", "t", "d"} ->
            IF Len(bytes) = FixedSize(sig)
            THEN Untrusted(sig, bytes, <<>>) ELSE Default(sig)
      [] Head(sig) \in {"s", "o", "g"} ->
            IF bytes # <<>> /\ bytes[Len(bytes)] = 0
                /\ IsText(sig, SubSeq(bytes, 1, Len(bytes) - 1))
            THEN Untrusted(sig, SubSeq(bytes, 1, Len(bytes) - 1), <<>>)
            ELSE Default(sig)
      [] Head(sig) = "v" ->
            LET z == LastIndexOf(bytes, 0)
                cty == [i \in 1..(Len(bytes) - z) |-> CodeChar(bytes[z + i])]
            IN  IF z = 0 \/ ~IsTypeString(cty)
                THEN Default(sig)
                ELSE Untrusted(sig, <<>>,
                        <<Deserialise(cty, SubSeq(bytes, 1, z - 1))>>)
      [] Head(sig) = "m" ->
            IF bytes = <<>> THEN Untrusted(sig, <<>>, <<>>)
            ELSE IF FixedSize(Tail(sig)) # 0
            THEN IF Len(bytes) = FixedSize(Tail(sig))
                 THEN Untrusted(sig, <<>>, <<Deserialise(Tail(sig), bytes)>>)
                 ELSE Untrusted(sig, <<>>, <<>>)
            ELSE Untrusted(sig, <<>>,
                    <<Deserialise(Tail(sig), SubSeq(bytes, 1, Len(bytes) - 1))>>)
      [] Head(sig) = "a" ->
            IF bytes = <<>> THEN Untrusted(sig, <<>>, <<>>)
            ELSE IF FixedSize(Tail(sig)) # 0
            THEN IF Len(bytes) % FixedSize(Tail(sig)) = 0
                 THEN Untrusted(sig, <<>>,
                        ReadFixedArray(Tail(sig), bytes, FixedSize(Tail(sig))))
                 ELSE Untrusted(sig, <<>>, <<>>)
            ELSE LET w == OffsetSize(Len(bytes))
                     table == IF Len(bytes) >= w
                              THEN ReadOffset(bytes, Len(bytes) - w + 1, w)
                              ELSE Len(bytes) + 1
                 IN  IF table > Len(bytes) \/ (Len(bytes) - table) % w # 0
                     THEN Untrusted(sig, <<>>, <<>>)
                     ELSE Untrusted(sig, <<>>,
                            ReadArray(Tail(sig), bytes, 1,
                                      (Len(bytes) - table) \div w, table, 0))
      [] Head(sig) \in {"(", "{"} ->
            IF FixedSize(sig) # 0 /\ Len(bytes) # FixedSize(sig)
            THEN Default(sig)
            ELSE Untrusted(sig, <<>>, ReadMembers(Members(sig), bytes, 1, 0, 0, TRUE))

\* ------------------------------------------------------------ serialised form
size(x) == Len(Serialise(x))

\* data(): slice::from_raw_parts(g_variant_get_data(..), g_variant_get_size(..)).
\* For an instance of size 0 the pointer is null, which from_raw_parts does
\* not allow (fixed_array guards the same case with n_elements == 0): the
\* build decides between an empty slice and an abort on the violated
\* precondition.
data(x) ==
    IF size(x) = 0
    THEN {Out("Slice", <<>>), Panic}
    ELSE {Out("Slice", Serialise(x))}

data_as_bytes(x) == Out("Bytes", Serialise(x))

\* store that writes what fits before it looks at the length.
store_unchecked(x, buffer) ==
    IF Len(buffer) < size(x)
    THEN [out |-> Err("Provided slice is too small"),
          buf |-> SubSeq(Serialise(x), 1, Len(buffer))]
    ELSE [out |-> Ok(size(x)),
          buf |-> Serialise(x) \o SubSeq(buffer, size(x) + 1, Len(buffer))]

\* store(): the outcome and the buffer afterwards.
store(x, buffer) ==
    IF Len(buffer) < size(x)
    THEN [out |-> Err("Provided slice is too small"), buf |-> buffer]
    ELSE [out |-> Ok(size(x)),
          buf |-> Serialise(x) \o SubSeq(buffer, size(x) + 1, Len(buffer))]

from_bytes_with_type(bytes, sig) == Deserialise(sig, bytes)

from_data(U, bytes) == Deserialise(static_variant_type(U), bytes)
from_data_with_type(bytes, sig) == Deserialise(sig, bytes)

\* g_variant_print: the text of a value, which tells values of one type apart
\* by their content alone.
RECURSIVE g_variant_print(_)
g_variant_print(x) == Val(x.ty, x.b, [i \in 1..Len(x.c) |-> g_variant_print(x.c[i])])

\* PartialEq::eq, g_variant_equal: the serialised bytes of two trusted
\* instances, the printed text otherwise.
\* Equality that leaves out the comparison of the types.
eq_untyped(a, b) ==
    IF a.tr /\ b.tr THEN Serialise(a) = Serialise(b)
    ELSE g_variant_print(a).b = g_variant_print(b).b
            /\ g_variant_print(a).c = g_variant_print(b).c

eq(a, b) ==
    /\ type_(a) = type_(b)
    /\ IF a.tr /\ b.tr THEN Serialise(a) = Serialise(b) ELSE g_variant_print(a) = g_variant_print(b)

\* g_variant_compare on two values of one basic type: numbers by value
\* (two's complement for the signed ones, sign and magnitude for doubles),
\* strings as strcmp does.
VariantLess(a, b) ==
    LET flip(s) == [i \in 1..Len(s) |->
                       IF i = 1 THEN (s[i] + 128) % 256 ELSE s[i]]
        neg(s) == s[Len(s)] >= 128
    IN  CASE Head(type_(a)) \in {"n", "i", "x"} ->
                LexLess(flip(Reverse(a.b)), flip(Reverse(b.b)))
          [] Head(type_(a)) = "d" ->
                IF neg(a.b) # neg(b.b) THEN neg(a.b)
                ELSE IF neg(a.b) THEN LexLess(Reverse(b.b), Reverse(a.b))
                ELSE LexLess(Reverse(a.b), Reverse(b.b))
          [] Head(type_(a)) \in {"s", "o", "g"} -> LexLess(a.b, b.b)
          [] OTHER -> LexLess(Reverse(a.b), Reverse(b.b))
g_variant_compare(a, b) ==
    IF VariantLess(a, b) THEN -1 ELSE IF VariantLess(b, a) THEN 1 ELSE 0

\* res.cmp(&0)
Ordering(n) == IF n < 0 THEN "Less" ELSE IF n > 0 THEN "Greater" ELSE "Equal"

\* g_variant_get_fixed_array: the number of elements and the pointer to
\* them, which is NULL when there is no element.
g_variant_get_fixed_array(x, element_size) ==
    LET sz == Len(Serialise(x))
        n == IF sz % element_size # 0 THEN 0 ELSE sz \div element_size
    IN  [n_elements |-> n, null |-> n = 0, ptr |-> Serialise(x)]

\* slice::from_raw_parts(ptr as *const T, n_elements)
from_raw_parts(ptr, width, n) ==
    Native(<<>>, [i \in 1..n |->
                    Native(SubSeq(ptr, (i - 1) * width + 1, i * width), <<>>)])

\* size_of::<T>() of the FixedSizeVariantType types
size_of(U) == IF U.t = "bool" THEN 1 ELSE NumericWidth(U.t)

fixed_array(x, U) ==
    LET expected_ty == as_array(static_variant_type(U))
    IN  IF type_(x) # expected_ty
        THEN Err(VariantTypeMismatchError_new(type_(x), expected_ty))
        ELSE LET r == g_variant_get_fixed_array(x, size_of(U))
             IN  IF r.null THEN Panic
                 ELSE IF r.n_elements = 0 THEN Ok(Native(<<>>, <<>>))
                 ELSE Ok(from_raw_parts(r.ptr, size_of(U), r.n_elements))

\* A guint is held as its two 16-bit halves <<low, high>>.
WordOf(b) == <<b[1] + 256 * b[2], b[3] + 256 * b[4]>>
WordAdd(a, b) ==
    <<(a[1] + b[1]) % 65536, (a[2] + b[2] + (a[1] + b[1]) \div 65536) % 65536>>
WordTimes33(h) ==
    <<(h[1] * 33) % 65536, (h[2] * 33 + (h[1] * 33) \div 65536) % 65536>>

\* g_str_hash: h = 5381, then h = h * 33 + c for every character.
RECURSIVE StrHashFrom(_, _, _)
StrHashFrom(bytes, i, h) ==
    IF i > Len(bytes) THEN h
    ELSE StrHashFrom(bytes, i + 1, WordAdd(WordTimes33(h), <<bytes[i], 0>>))
g_str_hash(bytes) == StrHashFrom(bytes, 1, <<5381, 0>>)

\* g_variant_hash: the string's hash, the number itself, the sum of the two
\* halves of a 64-bit number; 0 (after a warning) for a container.
hash(x) ==
    CASE Head(type_(x)) \in {"s", "o", "g"} -> g_str_hash(x.b)
      [] Head(type_(x)) \in {"b", "y"} -> <<x.b[1], 0>>
      [] Head(type_(x)) \in {"n", "q"} -> <<x.b[1] + 256 * x.b[2], 0>>
      [] Head(type_(x)) \in {"i", "u"} -> WordOf(x.b)
      [] Head(type_(x)) \in {"x", "t", "d"} ->
            WordAdd(WordOf(SubSeq(x.b, 1, 4)), WordOf(SubSeq(x.b, 5, 8)))
      [] OTHER -> <<0, 0>>

iter(x) == IF ~is_container(x) THEN Panic ELSE Out("VariantIter", x)

classify(x) ==
    CASE Head(type_(x)) = "b" -> "Boolean" [] Head(type_(x)) = "y" -> "Byte"
      [] Head(type_(x)) = "n" -> "Int16" [] Head(type_(x)) = "q" -> "Uint16"
      [] Head(type_(x)) = "i" -> "Int32" [] Head(type_(x)) = "u" -> "Uint32"
      [] Head(type_(x)) = "x" -> "Int64" [] Head(type_(x)) = "t" -> "Uint64"
      [] Head(type_(x)) = "d" -> "Double" [] Head(type_(x)) = "s" -> "String"
      [] Head(type_(x)) = "o" -> "ObjectPath"
      [] Head(type_(x)) = "g" -> "Signature"
      [] Head(type_(x)) = "v" -> "Variant" [] Head(type_(x)) = "m" -> "Maybe"
      [] Head(type_(x)) = "a" -> "Array" [] Head(type_(x)) = "(" -> "Tuple"
      [] Head(type_(x)) = "{" -> "DictEntry"
      [] OTHER -> "Invalid"

\* partial_cmp without the comparison of the classifications.
partial_cmp_unclassified(a, b) ==
    IF is_container(a) THEN None
    ELSE Some(Ordering(g_variant_compare(a, b)))

partial_cmp(a, b) ==
    IF classify(a) # classify(b) THEN None
    ELSE IF is_container(a) THEN None
    ELSE Some(Ordering(g_variant_compare(a, b)))

\* normal_form that loses the last element of an array.
RECURSIVE normal_form_short(_)
normal_form_short(x) ==
    Val(x.ty, x.b,
        [i \in 1..(IF Head(x.ty) = "a" /\ x.c # <<>>
                   THEN Len(x.c) - 1 ELSE Len(x.c)) |->
            normal_form_short(x.c[i])])

\* normal_form(): a trusted instance is its own normal form; an untrusted
\* one is copied into a trusted instance.
normal_form(x) == g_variant_print(x)

\* byteswap(): a new, trusted instance with the bytes of every fixed-width
\* number reversed.
\* byteswap that rotates the bytes of a number by one place.
RECURSIVE byteswap_rotate(_)
byteswap_rotate(x) ==
    Val(x.ty,
        IF Head(x.ty) \in {"n", "q", "i", "u", "x", "t", "d"}
        THEN Tail(x.b) \o <<Head(x.b)>> ELSE x.b,
        [i \in 1..Len(x.c) |-> byteswap_rotate(x.c[i])])

RECURSIVE byteswap(_)
byteswap(x) ==
    Val(x.ty,
        IF Head(x.ty) \in {"n", "q", "i", "u", "x", "t", "d"}
        THEN Reverse(x.b) ELSE x.b,
        [i \in 1..Len(x.c) |-> byteswap(x.c[i])])

\* ------------------------------------------------------------ shared instances
\* The GVariant behind the handles. It is built in tree form and is turned
\* into serialised form, under its lock, by the first call that needs the
\* bytes; it is freed when the last handle is dropped.
Instance(ty, serialised, tree, bytes) ==
    [ty |-> ty, bytes |-> bytes, serialised |-> serialised, tree |-> tree]
NoInstance == Instance(<<"!">>, TRUE, NoVariant, <<>>)
NewInstance(value) == Instance(value.ty, FALSE, value, <<>>)

\* The Variant an instance stands for.
ValueOf(in) ==
    IF in.serialised
    THEN g_variant_print(Deserialise(in.ty, in.bytes))
    ELSE in.tree

InstanceData(in) == IF in.serialised THEN in.bytes ELSE Serialise(in.tree)

\* g_variant_get_data / g_variant_get_data_as_bytes: the instance afterwards.
ensure_serialised(in) ==
    IF in.serialised THEN in
    ELSE Instance(in.ty, TRUE, NoVariant, Serialise(in.tree))

\* wrapper!: Clone takes a reference (g_variant_ref_sink), Drop gives one
\* back (g_variant_unref).
\* A Clone that takes no reference.
ref_borrowed(count) == count

ref(count) == count + 1
unref(count) == count - 1

\* ------------------------------------------------------------ inputs
SeqsUpTo(S, n) == UNION {[1..k -> S] : k \in 0..n}

\* Two values of each width (for f64, 1.0 and a subnormal: no NaN, which
\* is not equal to itself).
ScalarVals(t) ==
    IF t = "f64"
    THEN {<<42, 0, 0, 0, 0, 0, 0, 0>>, <<0, 0, 0, 0, 0, 0, 240, 63>>}
    ELSE {<<42>> \o Repeat(0, NumericWidth(t) - 1), Repeat(255, NumericWidth(t))}

Strings == {<<>>, <<97>>, <<98, 97>>}

\* The Variants a native Variant value is drawn from.
Boxed ==
    {Val(<<"s">>, <<97>>, <<>>),
     tuple_from_iter(<<Val(<<"s">>, <<97>>, <<>>), Val(<<"y">>, <<42>>, <<>>)>>)}

RECURSIVE ValuesOf(_)
ValuesOf(T) ==
    CASE T.t \in NumericNames -> {Native(b, <<>>) : b \in ScalarVals(T.t)}
      [] T.t = "bool" -> {Native(<<0>>, <<>>), Native(<<1>>, <<>>)}
      [] T.t = "unit" -> {Nothing}
      [] T.t = "String" -> {Native(b, <<>>) : b \in Strings}
      [] T.t = "Variant" -> Boxed
      [] T.t = "Option" ->
            {Nothing} \cup {Native(<<>>, <<e>>) : e \in ValuesOf(T.a[1])}
      [] T.t = "Vec" ->
            {Native(<<>>, s) : s \in SeqsUpTo(ValuesOf(T.a[1]), MaxLen)}
      [] T.t \in {"HashMap", "BTreeMap"} ->
            LET E == {Native(<<>>, <<k, w>>) :
                        k \in ValuesOf(T.a[1]), w \in ValuesOf(T.a[2])}
            IN  {Native(<<>>, s) : s \in
                    {m \in SeqsUpTo(E, MaxLen) :
                        \A i \in 1..(Len(m) - 1) :
                            NatLess(T.a[1], m[i].c[1], m[i + 1].c[1])}}
      [] T.t = "DictEntry" ->
            {Native(<<>>, <<k, w>>) :
                k \in ValuesOf(T.a[1]), w \in ValuesOf(T.a[2])}
      [] T.t = "Tuple" ->
            LET All == UNION {ValuesOf(T.a[i]) : i \in 1..Len(T.a)}
            IN  {Native(<<>>, s) : s \in
                    {f \in [1..Len(T.a) -> All] :
                        \A i \in 1..Len(T.a) : f[i] \in ValuesOf(T.a[i])}}

Scalars == {TU8, TI16, TU16, TI32, TU32, TI64, TU64, TF64, TBool}

Types ==
    Scalars \cup
    {TUnit, TString, TVariant,
     TOption(TU8), TOption(TString), TOption(TOption(TBool)),
     TVec(TU8), TVec(TU32), TVec(TString),
     THashMap(TU16, TString), TBTreeMap(TU16, TString),
     TBTreeMap(TString, TU32),
     THashMap(TString, TVariant),
     TDictEntry(TString, TU32),
     TTuple(<<TString>>), TTuple(<<TString, TU8>>),
     TTuple(<<TString, TU8, TU32>>)}

\* ------------------------------------------------------------ the machine
VARIABLES
    T,      \* the native type of the input
    v,      \* the native value
    seed,   \* the iteration order of the HashMaps in v
    x,      \* the Variant built from v (NoVariant before)
    res,    \* the last call on x: [op, U, i, out]
    buf,    \* the caller's buffer handed to store()
    inst,   \* the instance shared between the threads
    rc,     \* its reference count
    held,   \* the number of handles each thread holds
    kids,   \* the reference count of each child instance
    gbytes, \* the reference count of the GBytes around the caller's data
    freed,  \* how many times free_data has run
    copied  \* whether GLib reads the data from a copy of its own

vars == <<T, v, seed, x, res, buf, inst, rc, held, kids, gbytes, freed, copied>>
backing == <<kids, gbytes, freed, copied>>
shared == <<inst, rc, held, backing>>

MaxThreads == 2  \* threads sharing a Variant
MaxRefs == 3     \* handles to it at any time
MaxKids == 2     \* child instances alive at any time
MaxAddr == 1     \* the caller's data starts at address 0..MaxAddr (mod 8)
Threads == 1..MaxThreads
Kids == 1..MaxKids
NoBacking ==
    /\ kids = [k \in Kids |-> 0]
    /\ gbytes = 0
    /\ freed = 0
    /\ copied = FALSE

Call(op, U, i, out) == [i |-> i, out |-> out, U |-> U, op |-> op]
NoCall == Call("none", TUnit, 0, None)

\* The iteration orders a value of type U can be encoded in.
Seeds(U) == IF U.t = "HashMap" THEN 0..MaxSeed ELSE {0}

\* The Variants a is compared with: every Variant of its own native type U,
\* one Variant of every other type, and a copy of a read back from its bytes.
Others(U, a) ==
    {to_variant(U, w, s) : w \in ValuesOf(U), s \in Seeds(U)}
        \cup {to_variant(V, CHOOSE w \in ValuesOf(V) : TRUE, 0) : V \in Types}
        \cup {from_data_with_type(Serialise(a), type_(a))}

Init ==
    /\ T \in Types
    /\ v \in ValuesOf(T)
    /\ seed \in Seeds(T)
    /\ x = NoVariant
    /\ res = NoCall
    /\ buf = <<>>
    /\ inst = NoInstance
    /\ rc = 0
    /\ held = [t \in Threads |-> 0]
    /\ NoBacking

ToVariant ==
    /\ x = NoVariant
    /\ x' = to_variant(T, v, seed)
    /\ UNCHANGED <<T, v, seed, res, buf, shared>>

\* x is built and no call has been made on it yet: the calls leave x as it
\* is, so a run makes one call (and may rebuild a Variant from its bytes).
Built == x # NoVariant
Fresh == Built /\ res.op = "none"

Indexes == 0..MaxLen

Does(call) ==
    /\ Fresh
    /\ res' = call
    /\ UNCHANGED <<T, v, seed, x, buf, shared>>

Get == \E U \in Types : Does(Call("get", U, 0, get(x, U)))
TryGet == \E U \in Types : Does(Call("try_get", U, 0, try_get(x, U)))
NChildren == Does(Call("n_children", TUnit, 0, n_children(x)))
Iter == Does(Call("iter", TUnit, 0, iter(x)))
ChildValue == \E i \in Indexes : Does(Call("child_value", TUnit, i, child_value(x, i)))
TryChildValue ==
    \E i \in Indexes : Does(Call("try_child_value", TUnit, i, try_child_value(x, i)))
TryChildGet ==
    \E U \in Types, i \in Indexes :
        Does(Call("try_child_get", U, i, try_child_get(x, U, i)))
ChildGet ==
    \E U \in Types, i \in Indexes :
        Does(Call("child_get", U, i, child_get(x, U, i)))
Size == Does(Call("size", TUnit, 0, Out("Usize", size(x))))
Data == \E o \in data(x) : Does(Call("data", TUnit, 0, o))
DataAsBytes == Does(Call("data_as_bytes", TUnit, 0, data_as_bytes(x)))
Byteswap == Does(Call("byteswap", TUnit, 0, Out("Variant", byteswap(x))))
NormalForm == Does(Call("normal_form", TUnit, 0, Out("Variant", normal_form(x))))
Eq ==
    /\ Fresh
    /\ \E y \in Others(T, x) :
        Does(Call("eq", T, 0, Out("Bool", [eq |-> eq(x, y), y |-> y])))
PartialCmp ==
    /\ Fresh
    /\ \E y \in Others(T, x) :
        Does(Call("partial_cmp", T, 0, [partial_cmp(x, y) EXCEPT !.val = [y |-> y, ord |-> @]]))
IsContainer == Does(Call("is_container", T, 0, Out("Bool", is_container(x))))
FromVariant ==
    Does(Call("from_variant", T, 0, Out("Variant", Variant_from_variant(x))))
AsVariant == Does(Call("as_variant", T, 0, as_variant(x)))
Str == Does(Call("str", T, 0, str(x)))
FixedArray ==
    \E U \in Scalars : Does(Call("fixed_array", U, 0, fixed_array(x, U)))
\* The types whose static signature is asked for: the input types and the
\* nestings the documentation names.
SigTypes ==
    Types \cup
    {TVec(TTuple(<<TString, TU8, TU32>>)), THashMap(TString, TU32),
     THashMap(TString, TTuple(<<TString, TU8, TU32>>)),
     TBTreeMap(TString, TVariant)}
StaticVariantType ==
    \E U \in SigTypes :
        Does(Call("static_variant_type", U, 0,
                  Out("VariantTy", static_variant_type(U))))
\* A BTreeMap filled with the entries of v in any insertion order, encoded.
RECURSIVE Factorial(_)
Factorial(n) == IF n = 0 THEN 1 ELSE n * Factorial(n - 1)
BTreeMapToVariant ==
    /\ Fresh
    /\ T.t = "BTreeMap"
    /\ \E n \in 0..(Factorial(Len(v.c)) - 1) :
          LET m == InsertAll(T.a[1], <<>>, NthPerm(v.c, n))
          IN  Does(Call("btreemap_to_variant", T, n,
                        Out("Variant", to_variant(T, Native(<<>>, m), seed))))
\* The children handed to array_from_iter: x, another Variant of x's native
\* type, a string and a byte, in sequences of up to MaxLen.
Pool ==
    {x, to_variant(T, CHOOSE w \in ValuesOf(T) : w # v \/ ValuesOf(T) = {v}, seed),
     Val(<<"s">>, <<97>>, <<>>), Val(<<"y">>, <<42>>, <<>>)}
ArrayFromIter ==
    /\ Fresh
    /\ \E U \in {T, TString, TU8}, cs \in SeqsUpTo(Pool, MaxLen) :
          LET y == array_from_iter(U, cs)
          IN  Does(Call("array_from_iter", U, 0,
                        Out(IF y = NoVariant THEN "Panic" ELSE "Variant",
                            [children |-> cs, y |-> y])))
Collect ==
    /\ Fresh
    /\ T.t = "Vec"
    /\ LET y == from_iter(T.a[1], v.c, seed)
       IN  Does(Call("collect", T.a[1], 0,
                     IF y = NoVariant THEN Panic ELSE Out("Variant", y)))
FromMaybe ==
    /\ Fresh
    /\ \E U \in {T, TString, TU8}, child \in SeqsUpTo(Pool, 1) :
          LET y == from_maybe(U, child)
          IN  Does(Call("from_maybe", U, 0,
                        Out(IF y = NoVariant THEN "Panic" ELSE "Variant",
                            [child |-> child, y |-> y])))
Hash == Does(Call("hash", T, 0, Out("U32", hash(x))))

\* The caller's buffer: any length around size(), filled with 170.
Store ==
    /\ Fresh
    /\ \E n \in {m \in (size(x) - MaxSlack)..(size(x) + MaxSlack) : m >= 0} :
          LET r == store(x, Repeat(170, n))
          IN  /\ res' = Call("store", TUnit, n, r.out)
              /\ buf' = r.buf
    /\ UNCHANGED <<T, v, seed, x, shared>>

\* Rebuilding from the bytes the last call produced: the slice data()
\* returned, or the part of the buffer store() reported written.
FromDataWithType ==
    /\ Built
    /\ \/ /\ res.op = "data" /\ res.out.tag = "Slice"
          /\ res' = Call("from_data_with_type", TUnit, 0,
                         Out("Variant", from_data_with_type(res.out.val, type_(x))))
       \/ /\ res.op = "store" /\ res.out.tag = "Ok"
          /\ res' = Call("from_data_with_type", TUnit, 1,
                         Out("Variant",
                             from_data_with_type(SubSeq(buf, 1, res.out.val),
                                                 type_(x))))
    /\ UNCHANGED <<T, v, seed, x, buf, shared>>

\* Data from elsewhere handed to from_data::<T>: the slice data() returned
\* with its last (i = 1) or its first (i = 2) byte missing.
FromData ==
    /\ Built
    /\ res.op = "data" /\ res.out.tag = "Slice" /\ res.out.val # <<>>
    /\ \E i \in 1..2 :
          res' = Call("from_data", T, i,
                      Out("Variant",
                          from_data(T, SubSeq(res.out.val, i,
                                              Len(res.out.val) + i - 2))))
    /\ UNCHANGED <<T, v, seed, x, buf, shared>>

\* The bytes of a string, as they are (i = 0) or after a "/" (i = 1), read as
\* an object path or as a signature.
FromDataAsText ==
    /\ Built
    /\ res.op = "data" /\ res.out.tag = "Slice" /\ type_(x) = <<"s">>
    /\ \E i \in 0..1, sig \in {<<"o">>, <<"g">>} :
          res' = Call("from_data_as_text", T, i,
                      Out("Variant",
                          from_data_with_type(
                              (IF i = 1 THEN <<47>> ELSE <<>>) \o res.out.val, sig)))
    /\ UNCHANGED <<T, v, seed, x, buf, shared>>

FromBytesWithType ==
    /\ Built
    /\ res.op = "data_as_bytes"
    /\ res' = Call("from_bytes_with_type", TUnit, 0,
                   Out("Variant", from_bytes_with_type(res.out.val, type_(x))))
    /\ UNCHANGED <<T, v, seed, x, buf, shared>>

Next ==
    \/ ToVariant
    \/ Get
    \/ TryGet
    \/ NChildren
    \/ Iter
    \/ ChildValue
    \/ TryChildValue
    \/ TryChildGet
    \/ ChildGet
    \/ Size
    \/ Data
    \/ DataAsBytes
    \/ Byteswap
    \/ NormalForm
    \/ Eq
    \/ PartialCmp
    \/ IsContainer
    \/ FromVariant
    \/ AsVariant
    \/ FixedArray
    \/ StaticVariantType
    \/ Str
    \/ FromDataAsText
    \/ Hash
    \/ FromMaybe
    \/ ArrayFromIter
    \/ Collect
    \/ BTreeMapToVariant
    \/ FromData
    \/ Store
    \/ FromDataWithType
    \/ FromBytesWithType

Spec == Init /\ [][Next]_vars

\* ------------------------------------------------------------ sharing
\* Threads holding handles to one Variant (Send + Sync) call it in any
\* interleaving; x keeps the Variant as it was built.
SharedTypes == {TU32, TVec(TString), TTuple(<<TString, TU8>>)}

InitShared ==
    /\ T \in SharedTypes
    /\ v \in ValuesOf(T)
    /\ seed = 0
    /\ x = to_variant(T, v, seed)
    /\ res = NoCall
    /\ buf = <<>>
    /\ inst = NewInstance(x)
    /\ rc = 1
    /\ held = [t \in Threads |-> IF t = 1 THEN 1 ELSE 0]
    /\ NoBacking

Holds(t) == held[t] > 0

\* A read by thread t that leaves the instance as it is.
Reads(t, op, out) ==
    /\ Holds(t)
    /\ res' = Call(op, T, t, out)
    /\ UNCHANGED <<T, v, seed, x, buf, shared>>

\* Thread t clones its handle and gives the clone to thread u.
ShClone ==
    \E t \in Threads, u \in Threads :
        /\ Holds(t)
        /\ rc < MaxRefs
        /\ rc' = ref(rc)
        /\ held' = [held EXCEPT ![u] = @ + 1]
        /\ res' = Call("clone", T, t, Out("Variant", ValueOf(inst)))
        /\ UNCHANGED <<T, v, seed, x, buf, inst, backing>>

\* Thread t drops a handle; the last one frees the instance.
ShDrop ==
    \E t \in Threads :
        /\ Holds(t)
        /\ rc' = unref(rc)
        /\ held' = [held EXCEPT ![t] = @ - 1]
        /\ inst' = IF rc' = 0 THEN NoInstance ELSE inst
        /\ res' = Call("drop", T, t, None)
        /\ UNCHANGED <<T, v, seed, x, buf, backing>>

ShType == \E t \in Threads : Reads(t, "type_", Out("VariantTy", type_(inst)))
ShClassify ==
    \E t \in Threads : Reads(t, "classify", Out("VariantClass", classify(inst)))
ShGet == \E t \in Threads : Reads(t, "get", get(ValueOf(inst), T))
ShChildValue ==
    \E t \in Threads : Reads(t, "child_value", child_value(ValueOf(inst), 0))
ShNormalForm ==
    \E t \in Threads :
        Reads(t, "normal_form", Out("Variant", normal_form(ValueOf(inst))))
ShByteswap ==
    \E t \in Threads :
        Reads(t, "byteswap", Out("Variant", byteswap(ValueOf(inst))))
ShSize ==
    \E t \in Threads : Reads(t, "size", Out("Usize", Len(InstanceData(inst))))

\* data() serialises the instance in place the first time.
ShData ==
    \E t \in Threads :
        /\ Holds(t)
        /\ inst' = ensure_serialised(inst)
        /\ \E o \in data(ValueOf(inst)) : res' = Call("data", T, t, o)
        /\ UNCHANGED <<T, v, seed, x, buf, rc, held, backing>>

ShStore ==
    \E t \in Threads :
        /\ Holds(t)
        /\ LET r == store(ValueOf(inst), Repeat(170, Len(InstanceData(inst))))
           IN  /\ res' = Call("store", T, t, r.out)
               /\ buf' = r.buf
        /\ UNCHANGED <<T, v, seed, x, shared>>

NextShared ==
    \/ ShClone
    \/ ShDrop
    \/ ShType
    \/ ShClassify
    \/ ShGet
    \/ ShChildValue
    \/ ShNormalForm
    \/ ShByteswap
    \/ ShSize
    \/ ShData
    \/ ShStore

SpecShared == InitShared /\ [][NextShared]_vars

\* ------------------------------------------------------------ the backing buffer
\* from_data_with_type moves the caller's data into a Box and hands GLib the
\* bytes with free_data as the destroy notification. GLib wraps them in a
\* GBytes; the instance and every child sliced out of it hold a reference
\* on that GBytes, and the last g_bytes_unref runs the notification.

\* g_variant_serialised_check: whether data of len bytes at address addr can
\* be read in place as a value of type sig. A fixed-size type needs its own
\* size, and data longer than the alignment mask needs an aligned address.
g_variant_serialised_check(sig, addr, len) ==
    /\ FixedSize(sig) # 0 => len = FixedSize(sig)
    /\ \/ len <= Alignment(sig) - 1
       \/ addr % Alignment(sig) = 0

g_bytes_ref(count) == count + 1
g_bytes_unref(count) == count - 1

\* A destroy notification that forgets the Box.
free_data_leaked(count) == count

\* free_data: Box::from_raw, dropped at once.
free_data(count) == count + 1

\* The times free_data has run once the GBytes has count references left.
Notified(count) == IF count = 0 THEN free_data(freed) ELSE freed

RECURSIVE Sum(_, _)
Sum(f, n) == IF n = 0 THEN 0 ELSE f[n] + Sum(f, n - 1)
\* The handles alive: on the Variant and on its children.
Handles == rc + Sum(kids, MaxKids)

Live == rc > 0 \/ \E k \in Kids : kids[k] > 0
Made == res.op # "none"

InitBuffer ==
    /\ T \in SharedTypes
    /\ v \in ValuesOf(T)
    /\ seed = 0
    /\ x = to_variant(T, v, seed)
    /\ res = NoCall
    /\ buf = <<>>
    /\ inst = NoInstance
    /\ rc = 0
    /\ held = [t \in Threads |-> 0]
    /\ NoBacking

\* from_data_with_type / from_data_with_type_trusted on the bytes of x, or
\* on all but the last of them. g_variant_new_from_data makes the GBytes,
\* g_variant_new_from_bytes takes a reference on it when the data can be
\* read in place and copies the data when it cannot, and
\* g_variant_new_from_data gives its own reference back before it returns.
BufFromData ==
    /\ ~Made
    /\ \E trusted \in BOOLEAN, addr \in 0..MaxAddr,
          n \in {m \in (size(x) - MaxSlack)..size(x) : m >= 0} :
          LET bytes == SubSeq(Serialise(x), 1, n)
              inplace == g_variant_serialised_check(type_(x), addr, n)
              count == g_bytes_unref(IF inplace THEN g_bytes_ref(1) ELSE 1)
          IN  /\ buf' = bytes
              /\ inst' = Instance(type_(x), TRUE, NoVariant, bytes)
              /\ rc' = 1
              /\ held' = [t \in Threads |-> IF t = 1 THEN 1 ELSE 0]
              /\ copied' = ~inplace
              /\ gbytes' = count
              /\ freed' = Notified(count)
              /\ res' = Call(IF trusted THEN "from_data_with_type_trusted"
                                        ELSE "from_data_with_type",
                             T, addr, Out("Variant", ValueOf(inst')))
    /\ UNCHANGED <<T, v, seed, x, kids>>

\* The holder clones its handle and keeps the clone.
BufClone ==
    \E t \in Threads :
        /\ Holds(t)
        /\ Handles < MaxRefs
        /\ rc' = ref(rc)
        /\ held' = [held EXCEPT ![t] = @ + 1]
        /\ res' = Call("clone", T, t, Out("Variant", ValueOf(inst)))
        /\ UNCHANGED <<T, v, seed, x, buf, inst, backing>>

\* Thread t drops a handle; the last one frees the instance, which gives
\* back its reference on the GBytes it reads from.
BufDrop ==
    \E t \in Threads :
        /\ Holds(t)
        /\ rc' = unref(rc)
        /\ held' = [held EXCEPT ![t] = @ - 1]
        /\ inst' = IF rc' = 0 THEN NoInstance ELSE inst
        /\ gbytes' = IF rc' = 0 /\ ~copied THEN g_bytes_unref(gbytes) ELSE gbytes
        /\ freed' = IF rc' = 0 /\ ~copied THEN Notified(gbytes') ELSE freed
        /\ res' = Call("drop", T, t, None)
        /\ UNCHANGED <<T, v, seed, x, buf, kids, copied>>

\* child_value: a new instance with a reference on the parent's GBytes.
BufChildValue ==
    \E t \in Threads, i \in Indexes :
        /\ Holds(t)
        /\ LET out == child_value(ValueOf(inst), i)
           IN  /\ res' = Call("child_value", T, i, out)
               /\ IF out.tag = "Panic"
                  THEN UNCHANGED <<kids, gbytes>>
                  ELSE /\ Handles < MaxRefs
                       /\ \E k \in Kids : kids[k] = 0
                       /\ LET k == CHOOSE k \in Kids :
                                      /\ kids[k] = 0
                                      /\ \A j \in Kids : kids[j] = 0 => k <= j
                          IN  kids' = [kids EXCEPT ![k] = 1]
                       /\ gbytes' = IF copied THEN gbytes ELSE g_bytes_ref(gbytes)
        /\ UNCHANGED <<T, v, seed, x, buf, inst, rc, held, freed, copied>>

BufCloneChild ==
    \E k \in Kids :
        /\ kids[k] > 0
        /\ Handles < MaxRefs
        /\ kids' = [kids EXCEPT ![k] = ref(@)]
        /\ res' = Call("clone_child", T, k, None)
        /\ UNCHANGED <<T, v, seed, x, buf, inst, rc, held, gbytes, freed, copied>>

BufDropChild ==
    \E k \in Kids :
        /\ kids[k] > 0
        /\ kids' = [kids EXCEPT ![k] = unref(@)]
        /\ gbytes' = IF kids'[k] = 0 /\ ~copied
                     THEN g_bytes_unref(gbytes) ELSE gbytes
        /\ freed' = IF kids'[k] = 0 /\ ~copied THEN Notified(gbytes') ELSE freed
        /\ res' = Call("drop_child", T, k, None)
        /\ UNCHANGED <<T, v, seed, x, buf, inst, rc, held, copied>>

NextBuffer ==
    \/ BufFromData
    \/ BufClone
    \/ BufDrop
    \/ BufChildValue
    \/ BufCloneChild
    \/ BufDropChild

SpecBuffer == InitBuffer /\ [][NextBuffer]_vars

\* ------------------------------------------------------------ claims C1..C10
\* The types of claim C1: built from the integers, bool, (), String, Option,
\* Vec, the maps and tuples.
RECURSIVE RoundTripType(_)
RoundTripType(U) ==
    /\ U.t \notin {"f64", "Variant", "DictEntry"}
    /\ \A i \in 1..Len(U.a) : RoundTripType(U.a[i])

\* C1: round trip. Decoding the Variant built from a native value v as v's
\* own type gives Some(v).
C1_RoundTrip ==
    (res.op = "get" /\ res.U = T /\ RoundTripType(T))
        => (res.out.tag = "Some" /\ res.out.val = v)

\* A HashMap of two entries, encoded in descending key order, came back.
C1_Witness ==
    /\ res.op = "get" /\ res.U = T /\ T.t = "HashMap"
    /\ Len(v.c) = 2 /\ seed = 1
    /\ x.c[1].c[1].b = v.c[2].c[1].b
    /\ res.out.tag = "Some"

\* C2 (as claimed): decoding as a type whose signature differs from the
\* Variant's gives None.
C2_MismatchIsNone ==
    (res.op = "get" /\ type_(x) # static_variant_type(res.U))
        => res.out.tag = "None"

\* C3: decoding as a type whose signature is the Variant's gives Some.
C3_MatchIsSome ==
    (res.op = "get" /\ is(x, res.U)) => res.out.tag = "Some"

\* A map built as a HashMap decoded as the BTreeMap of the same signature.
C3_Witness ==
    /\ res.op = "get" /\ is(x, res.U) /\ res.U # T
    /\ Len(x.c) = 2
    /\ res.out.tag = "Some"

\* C4 (as claimed): try_get is Ok(v) exactly when get is Some(v), and is
\* otherwise Err with actual = the Variant's signature, expected = T's.
C4_TryGet ==
    res.op = "try_get" =>
        LET g == get(x, res.U)
        IN  IF g.tag = "Some"
            THEN res.out.tag = "Ok" /\ res.out.val = g.val
            ELSE /\ res.out.tag = "Err"
                 /\ res.out.val.actual = type_(x)
                 /\ res.out.val.expected = static_variant_type(res.U)

\* C5 (as claimed): try_child_get is Ok(None) for an absent child,
\* Ok(Some(v)) for a child that decodes, Err for one that does not; it never
\* panics.
C5_TryChildGet ==
    res.op = "try_child_get" =>
        IF ~is_container(x) \/ res.i >= Len(x.c)
        THEN res.out.tag = "OkNone"
        ELSE LET g == get(x.c[res.i + 1], res.U)
             IN  IF g.tag = "Some"
                 THEN res.out.tag = "OkSome" /\ res.out.val = g.val
                 ELSE res.out.tag = "Err"

\* C6: try_child_value is None exactly for a non-container or an index past
\* the children, and otherwise Some of what child_value returns; no panic.
C6_TryChildValue ==
    res.op = "try_child_value" =>
        /\ res.out.tag \in {"None", "Some"}
        /\ res.out.tag = "None" <=> (~is_container(x) \/ res.i >= Len(x.c))
        /\ res.out.tag = "Some" =>
              /\ child_value(x, res.i).tag = "Variant"
              /\ eq(res.out.val, child_value(x, res.i).val)
              /\ res.out.val = x.c[res.i + 1]

\* The last child of a two-element container was read.
C6_Witness ==
    /\ res.op = "try_child_value" /\ res.i = 1 /\ Len(x.c) = 2
    /\ res.out.tag = "Some" /\ res.out.val = x.c[2]

\* C7: the trusted accessors panic on a contract violation and return
\* nothing.
C7_TrustedPanic ==
    /\ (res.op \in {"n_children", "iter"} /\ ~is_container(x))
          => res.out.tag = "Panic"
    /\ (res.op = "child_value" /\ (~is_container(x) \/ res.i >= Len(x.c)))
          => res.out.tag = "Panic"
    /\ (res.op = "child_get"
          /\ (\/ ~is_container(x)
              \/ res.i >= Len(x.c)
              \/ get(x.c[res.i + 1], res.U).tag # "Some"))
          => res.out.tag = "Panic"

\* child_get met a child of another type; n_children met a string.
C7_Witness ==
    \/ /\ res.op = "child_get" /\ is_container(x) /\ res.i < Len(x.c)
       /\ get(x.c[res.i + 1], res.U).tag = "None"
       /\ res.out.tag = "Panic"
    \/ /\ res.op = "n_children" /\ type_(x) = <<"s">> /\ res.out.tag = "Panic"

\* C8: while any thread holds a handle, the shared Variant has the signature,
\* the classification and the serialised data it was built with, and every
\* read returns what it would have returned at construction.
C8_Immutable ==
    (\E t \in Threads : Holds(t)) =>
        /\ type_(inst) = type_(x)
        /\ classify(inst) = classify(x)
        /\ InstanceData(inst) = Serialise(x)
        /\ eq(ValueOf(inst), x)
        /\ res.op = "type_" => res.out.val = type_(x)
        /\ res.op = "classify" => res.out.val = classify(x)
        /\ res.op = "size" => res.out.val = size(x)
        /\ (res.op = "data" /\ res.out.tag = "Slice") => res.out.val = Serialise(x)
        /\ res.op = "store" => buf = Serialise(x)
        /\ res.op = "get" => res.out = get(x, T)

\* One thread reads the Variant after another thread serialised it in place,
\* took a clone and dropped a handle.
C8_Witness ==
    /\ inst.serialised
    /\ rc = 2
    /\ Holds(1) /\ Holds(2)
    /\ res.op = "get" /\ res.i = 2 /\ res.out.tag = "Some"
    /\ Len(x.c) = 2

\* C9 (as claimed): a Variant rebuilt from data() / data_as_bytes() / the
\* bytes store() wrote, with the same signature, equals the original.
C9_SerializeRoundTrip ==
    /\ res.op = "data" =>
          /\ res.out.tag = "Slice"
          /\ eq(from_data_with_type(res.out.val, type_(x)), x)
    /\ res.op \in {"from_data_with_type", "from_bytes_with_type"} =>
          eq(res.out.val, x)

\* C10 (as claimed): store is Err exactly for a buffer shorter than size();
\* otherwise Ok(size()) with the bytes of data() at the front of the buffer;
\* data(), size() and data_as_bytes() agree on the length.
C10_Store ==
    /\ res.op = "store" =>
          /\ res.out.tag = "Err" <=> res.i < size(x)
          /\ res.out.tag # "Err" =>
                /\ res.out.tag = "Ok" /\ res.out.val = size(x)
                /\ \A d \in data(x) :
                      d.tag = "Slice" /\ SubSeq(buf, 1, size(x)) = d.val
    /\ res.op = "data" =>
          /\ res.out.tag = "Slice"
          /\ Len(res.out.val) = size(x)
          /\ Len(data_as_bytes(x).val) = size(x)

\* ------------------------------------------------------------ claims C11..C20
\* C11: byteswap is an involution on scalars and containers, it keeps the
\* signature, and on a u32 it reverses the four bytes (42 becomes
\* 704643072 = 42 * 2^24).
C11_ByteswapInvolution ==
    res.op = "byteswap" =>
        /\ type_(res.out.val) = type_(x)
        /\ eq(byteswap(res.out.val), x)
        /\ type_(x) = <<"u">> =>
              \A i \in 1..4 : res.out.val.b[i] = x.b[5 - i]
        /\ (type_(x) = <<"u">> /\ x.b = <<42, 0, 0, 0>>) =>
              res.out.val.b[4] * 16777216 + res.out.val.b[3] * 65536
                + res.out.val.b[2] * 256 + res.out.val.b[1] = 704643072

\* 42u32 was swapped; a tuple holding a u32 was swapped.
C11_Witness ==
    /\ res.op = "byteswap"
    /\ \/ x.ty = <<"u">> /\ x.b = <<42, 0, 0, 0>> /\ res.out.val.b = <<0, 0, 0, 42>>
       \/ /\ x.ty = <<"(", "s", "y", "u", ")">>
          /\ res.out.val.c[3].b = <<0, 0, 0, 42>>

\* C12: normal_form is idempotent on every Variant, also on one read from
\* data that is not in normal form, and a Variant built by to_variant equals
\* its normal form.
C12_NormalForm ==
    /\ res.op = "normal_form" =>
          /\ eq(res.out.val, x)
          /\ eq(normal_form(res.out.val), res.out.val)
    /\ res.op \in {"from_data", "from_data_with_type", "from_bytes_with_type"} =>
          /\ eq(normal_form(normal_form(res.out.val)), normal_form(res.out.val))
          /\ Serialise(normal_form(normal_form(res.out.val)))
                = Serialise(normal_form(res.out.val))

\* An array of two strings equalled its normal form; a Variant read from
\* damaged data, different from the original, was normalised.
C12_Witness ==
    \/ /\ res.op = "normal_form" /\ x.ty = <<"a", "s">> /\ Len(x.c) = 2
       /\ res.out.val.c = x.c
    \/ /\ res.op = "from_data" /\ ~eq(res.out.val, x)
       /\ normal_form(res.out.val).tr /\ ~res.out.val.tr

C15_IsContainer ==
    res.op = "is_container" =>
        (res.out.val <=> classify(x) \in {"Array", "Tuple", "DictEntry", "Maybe"})

\* C16: Variant::from_variant(&x) has the signature "v" and unboxes to x;
\* as_variant is None on every Variant that is not classified Variant, and
\* Some of the boxed Variant on one that is.
C16_Boxing ==
    /\ res.op = "from_variant" =>
          /\ type_(res.out.val) = <<"v">>
          /\ classify(res.out.val) = "Variant"
          /\ as_variant(res.out.val) = Some(x)
          /\ from_variant(TVariant, res.out.val) = Some(x)
    /\ res.op = "as_variant" =>
          /\ classify(x) # "Variant" => res.out = None
          /\ classify(x) = "Variant" =>
                res.out.tag = "Some" /\ Variant_from_variant(res.out.val) = x

\* A tuple was boxed and unboxed again; as_variant of an array was None.
C16_Witness ==
    \/ /\ res.op = "from_variant" /\ Len(x.c) = 2 /\ x.ty # <<"v">>
       /\ as_variant(res.out.val).val = x
    \/ /\ res.op = "as_variant" /\ x.ty = <<"a", "s">> /\ Len(x.c) = 2
       /\ res.out.tag = "None"

\* C17: str() is Some exactly on the signatures "s", "o" and "g", with the
\* string the Variant was built from, and None on every other signature.
C17_Str ==
    /\ res.op = "str" =>
          /\ res.out.tag = "Some" <=> type_(x) \in {<<"s">>, <<"o">>, <<"g">>}
          /\ res.out.tag # "Some" => res.out = None
          /\ T = TString => res.out = Some(v)
    /\ res.op = "from_data_as_text" =>
          LET y == res.out.val
              text == (IF res.i = 1 THEN <<47>> ELSE <<>>) \o x.b
          IN  /\ type_(y) \in {<<"o">>, <<"g">>}
              /\ str(y).tag = "Some"
              /\ IsText(type_(y), text) => str(y).val.b = text

\* The object path "/a" was read; str() of a tuple was None.
C17_Witness ==
    \/ /\ res.op = "from_data_as_text" /\ res.out.val.ty = <<"o">>
       /\ str(res.out.val) = Some(Native(<<47, 97>>, <<>>))
    \/ /\ res.op = "str" /\ T = TString /\ res.out.val.b = <<98, 97>>

\* C18 (as claimed): fixed_array::<T>() is Ok exactly when the signature is
\* array-of(T), with the elements the Variant was built from (the empty
\* slice for an empty array); otherwise Err with actual = the Variant's
\* signature and expected = array-of(T).
C18_FixedArray ==
    res.op = "fixed_array" =>
        IF type_(x) = as_array(static_variant_type(res.U))
        THEN res.out.tag = "Ok" /\ (T = TVec(res.U) => res.out.val = v)
        ELSE /\ res.out.tag = "Err"
             /\ res.out.val.actual = type_(x)
             /\ res.out.val.expected = as_array(static_variant_type(res.U))

\* C19: a static signature is composed from the element signatures: "m" +
\* T for Option, "a" + T for Vec, "(" + fields + ")" for a tuple,
\* "{" + K + V + "}" for DictEntry, and "a{" + K + V + "}" for both maps,
\* which is array-of(DictEntry<K, V>) and VARDICT for string keys and
\* variant values.
C19_StaticSignatures ==
    res.op = "static_variant_type" =>
        LET U == res.U
            s == res.out.val
            sig(i) == static_variant_type(U.a[i])
        IN  /\ IsTypeString(s)
            /\ U.t = "Option" => s = <<"m">> \o sig(1)
            /\ U.t = "Vec" => s = <<"a">> \o sig(1)
            /\ U.t = "Tuple" =>
                  /\ Head(s) = "(" /\ s[Len(s)] = ")"
                  /\ Members(s) = [i \in 1..Len(U.a) |-> sig(i)]
            /\ U.t = "DictEntry" => s = <<"{">> \o sig(1) \o sig(2) \o <<"}">>
            /\ U.t \in {"HashMap", "BTreeMap"} =>
                  /\ s = <<"a", "{">> \o sig(1) \o sig(2) \o <<"}">>
                  /\ s = as_array(static_variant_type(TDictEntry(U.a[1], U.a[2])))
                  /\ U.a = <<TString, TVariant>> => s = VARDICT
            /\ U = TVec(TString) => s = <<"a", "s">>
            /\ U = TTuple(<<TString, TU8, TU32>>) => s = <<"(", "s", "y", "u", ")">>
            /\ U = TVec(TTuple(<<TString, TU8, TU32>>)) =>
                  s = <<"a", "(", "s", "y", "u", ")">>
            /\ U = THashMap(TString, TU32) => s = <<"a", "{", "s", "u", "}">>
            /\ U = THashMap(TString, TTuple(<<TString, TU8, TU32>>)) =>
                  s = <<"a", "{", "s", "(", "s", "y", "u", ")", "}">>

\* The signature of HashMap<String, (String, u8, u32)> was "a{s(syu)}".
C19_Witness ==
    /\ res.op = "static_variant_type"
    /\ res.U = THashMap(TString, TTuple(<<TString, TU8, TU32>>))
    /\ res.out.val = <<"a", "{", "s", "(", "s", "y", "u", ")", "}">>

\* Every child of y has the type y's signature gives it, at every depth.
RECURSIVE WellTyped(_)
WellTyped(y) ==
    /\ IsTypeString(y.ty)
    /\ CASE Head(y.ty) = "a" ->
                \A i \in 1..Len(y.c) : y.c[i].ty = Tail(y.ty)
         [] Head(y.ty) = "m" ->
                Len(y.c) <= 1 /\ \A i \in 1..Len(y.c) : y.c[i].ty = Tail(y.ty)
         [] Head(y.ty) \in {"(", "{"} ->
                [i \in 1..Len(y.c) |-> y.c[i].ty] = Members(y.ty)
         [] Head(y.ty) = "v" -> Len(y.c) = 1
         [] OTHER -> y.c = <<>>
    /\ \A i \in 1..Len(y.c) : WellTyped(y.c[i])

C21_Positional ==
    /\ (res.op = "n_children" /\ T.t \in {"Vec", "Tuple"}) =>
          res.out = Out("Usize", Len(v.c))
    /\ (res.op = "n_children" /\ T.t = "Tuple") => res.out.val = Len(T.a)
    /\ (res.op = "child_value" /\ T.t \in {"Vec", "Tuple"} /\ res.i < Len(v.c)) =>
          LET E == IF T.t = "Vec" THEN T.a[1] ELSE T.a[res.i + 1]
          IN  /\ res.out.tag = "Variant"
              /\ eq(res.out.val, to_variant(E, v.c[res.i + 1], seed))
    /\ (res.op = "try_child_get" /\ T.t \in {"Vec", "Tuple"} /\ res.i < Len(v.c)
            /\ res.U = (IF T.t = "Vec" THEN T.a[1] ELSE T.a[res.i + 1])
            /\ RoundTripType(res.U)) =>
          res.out = OkSome(v.c[res.i + 1])
    /\ (Built /\ T = TVec(TString)) => type_(x) = <<"a", "s">>

\* Of a Vec of two different strings, child 1 was read as the second string.
C21_Witness ==
    /\ res.op = "try_child_get" /\ T = TVec(TString) /\ res.U = TString
    /\ Len(v.c) = 2 /\ v.c[1] # v.c[2] /\ res.i = 1
    /\ type_(x) = <<"a", "s">>
    /\ res.out = OkSome(v.c[2])

\* C22: an empty Vec, HashMap or BTreeMap is encoded as a container without
\* children whose signature is the full static signature ("a{qs}" for
\* HashMap<u16, String>, "a" + sig(T) for a Vec), and decoding it gives
\* Some(empty collection).
C22_EmptyContainer ==
    (Built /\ T.t \in {"Vec", "HashMap", "BTreeMap"} /\ v.c = <<>>) =>
        /\ is_container(x)
        /\ n_children(x) = Out("Usize", 0)
        /\ type_(x) = static_variant_type(T)
        /\ T.t = "Vec" => type_(x) = <<"a">> \o static_variant_type(T.a[1])
        /\ T = THashMap(TU16, TString) => type_(x) = <<"a", "{", "q", "s", "}">>
        /\ res.op = "n_children" => res.out = Out("Usize", 0)
        /\ (res.op = "get" /\ is(x, res.U)) => res.out = Some(Native(<<>>, <<>>))

\* An empty HashMap<u16, String> was decoded as itself and came back empty.
C22_Witness ==
    /\ res.op = "get" /\ res.U = T /\ T = THashMap(TU16, TString)
    /\ v.c = <<>> /\ x.c = <<>> /\ x.ty = <<"a", "{", "q", "s", "}">>
    /\ res.out.tag = "Some" /\ res.out.val.c = <<>>

\* C23: whatever the order its entries were inserted in, a BTreeMap encodes
\* with its dict entries in ascending key order; two BTreeMaps of the same
\* entries filled in different orders encode to equal Variants with the same
\* data().
C23_BTreeMapSorted ==
    res.op = "btreemap_to_variant" =>
        LET y == res.out.val
            K == T.a[1]
            key(i) == get(child_value(child_value(y, i - 1).val, 0).val, K).val
        IN  /\ n_children(y) = Out("Usize", Len(v.c))
            /\ \A i \in 1..(Len(y.c) - 1) : NatLess(K, key(i), key(i + 1))
            /\ get(y, T) = Some(v)
            /\ NthPerm(v.c, res.i) # v.c =>
                  /\ eq(y, x)
                  /\ \A d \in data(y) : d.tag = "Slice" /\ data(x) = {d}

\* A BTreeMap<u16, String> filled with its larger key first, 65535 then 42,
\* encoded with 42 first.
C23_Witness ==
    /\ res.op = "btreemap_to_variant" /\ T = TBTreeMap(TU16, TString)
    /\ Len(v.c) = 2 /\ NthPerm(v.c, res.i)[1] = v.c[2]
    /\ NthPerm(v.c, res.i)[1].c[1].b = <<255, 255>>
    /\ res.out.val.c[1].c[1].b = <<42, 0>>
    /\ res.out.val.c[2].c[1].b = <<255, 255>>
    /\ eq(res.out.val, x)

\* x is an array of dict entries each of which decodes as DictEntry<K, V>.
DecodableEntries(U) ==
    /\ Head(type_(x)) = "a"
    /\ \A i \in 1..Len(x.c) :
          /\ Head(type_(x.c[i])) = "{"
          /\ from_variant(TDictEntry(U.a[1], U.a[2]), x.c[i]).tag = "Some"

\* C25 (as claimed): HashMap::from_variant and BTreeMap::from_variant never
\* panic; they return an Option on every Variant, and None on every Variant
\* that is not an array of dict entries decodable as (K, V).
C25_MapNoPanic ==
    (res.op = "get" /\ res.U.t \in {"HashMap", "BTreeMap"}) =>
        /\ res.out.tag \in {"Some", "None"}
        /\ ~DecodableEntries(res.U) => res.out = None

\* Some child of x that from_variant::<U> has to decode (an element of the
\* Vec, an entry of the map with its key and value, a field of the tuple, the
\* key or the value of the dict entry) does not decode as its target type.
ChildFails(U) ==
    CASE U.t = "Vec" ->
            /\ is_container(x)
            /\ \E i \in 1..Len(x.c) : from_variant(U.a[1], x.c[i]).tag # "Some"
      [] U.t \in {"HashMap", "BTreeMap"} ->
            /\ is_container(x)
            /\ \E i \in 1..Len(x.c) :
                  from_variant(TDictEntry(U.a[1], U.a[2]), x.c[i]).tag # "Some"
      [] U.t = "Tuple" ->
            /\ is_subtype_of_TUPLE(type_(x))
            /\ \E i \in 1..Len(U.a) :
                  i <= Len(x.c) /\ from_variant(U.a[i], x.c[i]).tag # "Some"
      [] U.t = "DictEntry" ->
            /\ is_subtype_of_DICT_ENTRY(type_(x))
            /\ \E i \in 1..2 : from_variant(U.a[i], x.c[i]).tag # "Some"
      [] OTHER -> FALSE

\* C24 (as claimed): decoding a Vec, a map, a tuple or a DictEntry is all or
\* nothing: when any child fails to decode as its target type the result is
\* None, and a Some result holds every child of the Variant.
C24_AllOrNothing ==
    res.op = "get" =>
        /\ ChildFails(res.U) => res.out = None
        /\ (res.out.tag = "Some" /\ res.U.t \in {"Vec", "HashMap", "BTreeMap"}) =>
              Len(res.out.val.c) = Len(x.c)

\* C26: array_from_iter::<T> panics exactly when some child's signature is
\* not T's; otherwise it returns an array of signature "a" + sig(T) with the
\* children in iteration order (none for an empty iterator). Collecting
\* native values gives the array their Vec encodes to.
C26_ArrayFromIter ==
    /\ res.op = "array_from_iter" =>
          LET cs == res.out.val.children
              y == res.out.val.y
              sig == static_variant_type(res.U)
          IN  /\ res.out.tag = "Panic" <=> \E i \in 1..Len(cs) : type_(cs[i]) # sig
              /\ res.out.tag # "Panic" =>
                    /\ res.out.tag = "Variant"
                    /\ type_(y) = <<"a">> \o sig
                    /\ n_children(y) = Out("Usize", Len(cs))
                    /\ \A i \in 1..Len(cs) :
                          /\ child_value(y, i - 1) = Out("Variant", cs[i])
                          /\ type_(cs[i]) = sig
    /\ res.op = "collect" =>
          /\ res.out.tag = "Variant"
          /\ type_(res.out.val) = <<"a">> \o static_variant_type(res.U)
          /\ n_children(res.out.val) = Out("Usize", Len(v.c))
          /\ \A i \in 1..Len(v.c) :
                child_value(res.out.val, i - 1)
                    = Out("Variant", to_variant(res.U, v.c[i], seed))
          /\ eq(res.out.val, x)
          /\ res.out.val = array_from_iter(res.U, x.c)

\* Two different strings became an "as" in the order given; a byte after a
\* string made array_from_iter::<String> panic; no child gave an empty "as".
C26_Witness ==
    /\ res.op = "array_from_iter" /\ res.U = TString
    /\ \/ /\ Len(res.out.val.children) = 2
          /\ res.out.val.children[1] # res.out.val.children[2]
          /\ res.out.tag = "Variant"
          /\ res.out.val.y.c = res.out.val.children
          /\ res.out.val.y.ty = <<"a", "s">>
       \/ /\ Len(res.out.val.children) = 2
          /\ res.out.val.children[1].ty = <<"s">>
          /\ res.out.val.children[2].ty = <<"y">>
          /\ res.out.tag = "Panic"

\* C27: Some(v) encodes to a maybe with the one child v.to_variant(), None
\* to a maybe without children, both of signature "m" + sig(T); they decode
\* to Some(Some(v)) and Some(None). from_maybe::<T>(Some(child)) panics when
\* the child's signature is not T's.
C27_Option ==
    /\ (Built /\ T.t = "Option") =>
          /\ type_(x) = <<"m">> \o static_variant_type(T.a[1])
          /\ classify(x) = "Maybe"
          /\ n_children(x) = Out("Usize", Len(v.c))
          /\ Len(v.c) <= 1
          /\ v.c # <<>> =>
                child_value(x, 0) = Out("Variant", to_variant(T.a[1], v.c[1], seed))
          /\ (res.op = "get" /\ res.U = T) =>
                /\ res.out = Some(v)
                /\ v.c = <<>> => res.out = Some(Nothing)
                /\ v.c # <<>> => res.out.val.c = <<v.c[1]>>
    /\ res.op = "from_maybe" =>
          LET child == res.out.val.child
              y == res.out.val.y
              sig == static_variant_type(res.U)
          IN  /\ res.out.tag = "Panic" <=> (child # <<>> /\ type_(child[1]) # sig)
              /\ res.out.tag # "Panic" =>
                    /\ type_(y) = <<"m">> \o sig
                    /\ n_children(y) = Out("Usize", Len(child))
                    /\ child # <<>> => child_value(y, 0) = Out("Variant", child[1])

\* Some(Some(true)) came back from its "mmb"; from_maybe::<String> panicked
\* on a byte.
C27_Witness ==
    \/ /\ res.op = "get" /\ res.U = T /\ T = TOption(TOption(TBool))
       /\ x.ty = <<"m", "m", "b">> /\ Len(x.c) = 1 /\ Len(x.c[1].c) = 1
       /\ res.out.tag = "Some" /\ res.out.val.c[1].c[1].b = <<1>>
    \/ /\ res.op = "from_maybe" /\ res.U = TString
       /\ res.out.val.child # <<>> /\ res.out.val.child[1].ty = <<"y">>
       /\ res.out.tag = "Panic"

\* C29 (as claimed): a tuple type of arity n decodes to Some exactly from a
\* tuple Variant with exactly n children, the i-th decoding as the i-th field
\* type; a tuple with fewer or with more children, and every Variant that is
\* no tuple, gives None.
C29_TupleArity ==
    (res.op = "get" /\ res.U.t = "Tuple") =>
        IF /\ Head(type_(x)) = "("
           /\ Len(x.c) = Len(res.U.a)
           /\ \A i \in 1..Len(x.c) : get(x.c[i], res.U.a[i]).tag = "Some"
        THEN res.out.tag = "Some"
        ELSE res.out = None

\* C30: store writes nothing but its result: on Err (a buffer shorter than
\* size()) no byte of the buffer changes; on Ok(n) the bytes from n on keep
\* their contents and the length of the buffer stays; the Variant is as
\* it was.
C30_StoreFrame ==
    res.op = "store" =>
        /\ Len(buf) = res.i
        /\ res.out.tag = "Err" => (res.i < size(x) /\ buf = Repeat(170, res.i))
        /\ res.out.tag # "Err" =>
              /\ res.out.tag = "Ok"
              /\ res.out.val <= res.i
              /\ SubSeq(buf, res.out.val + 1, res.i)
                    = Repeat(170, res.i - res.out.val)
        /\ x = to_variant(T, v, seed)

\* A buffer one byte longer than needed kept its last byte; a buffer one
\* byte too short was left as it was.
C30_Witness ==
    /\ res.op = "store" /\ size(x) > 1
    /\ \/ /\ res.out = Ok(size(x)) /\ res.i = size(x) + 1
          /\ buf[res.i] = 170 /\ SubSeq(buf, 1, size(x)) = Serialise(x)
       \/ /\ res.out.tag = "Err" /\ res.i = size(x) - 1
          /\ buf = Repeat(170, res.i)

\* C28 (as claimed): the data handed to from_data_with_type is released
\* once, never while the Variant, a clone or a child of it is alive, and
\* always when the last of them has been dropped.
C28_BufferLifetime ==
    /\ freed <= 1
    /\ Live => freed = 0
    /\ (Made /\ ~Live) => freed = 1

\* C28 (amended): the data is released once; never while a Variant, a clone
\* or a child reads from it; at the latest when the last of them has been
\* dropped. Data GLib cannot read in place (not aligned for the type, or not
\* of the type's fixed size) is copied and released before
\* from_data_with_type returns.
C28_BufferReleased ==
    /\ freed <= 1
    /\ (Live /\ ~copied) => (freed = 0 /\ gbytes > 0)
    /\ (Made /\ copied) => freed = 1
    /\ (Made /\ ~Live) => freed = 1
    /\ freed = 1 => gbytes = 0

\* The last reference dropped was a child that outlived the Variant it was
\* sliced from, and the data it read in place was released then.
C28_Witness ==
    /\ res.op = "drop_child"
    /\ ~copied
    /\ ~Live
    /\ freed = 1

====
